---- MODULE Spec2Model ----
(***************************************************************************)
(* atomichron: the Entry record and the EntryList state machine.           *)
(*                                                                         *)
(* The repository holds two definitions of EntryList: src/entries.rs       *)
(* (start, stop with overrides, clear, current) and the crate root         *)
(* src/lib.rs (start with an implicit stop, stop without arguments,        *)
(* clear).  Both are modelled; the variable `variant` records which        *)
(* definition the list is an instance of.                                  *)
(*                                                                         *)
(* SystemTime::now() is modelled as a clock that never runs backwards.     *)
(*                                                                         *)
(* Further parts: get_entries_in_order (src/aggregate.rs); load,           *)
(* load_or_create and save of src/entries.rs, with the entries file and    *)
(* the document the serde impls write; and main (src/main.rs), as two      *)
(* invocations that share the entries file.                                *)
(***************************************************************************)
EXTENDS Integers, Sequences, FiniteSets, TLC

\* ------------------------------------------------------------------ bounds
\* Number of ids Uuid::new_v4 can hand out, i.e. of entries ever created.
MaxIds == 2
\* Last reading of the clock.
MaxTime == 1
\* Largest number of entries in a list rehydrated from storage.
MaxLoaded == 1

\* ------------------------------------------------------------- value sets
\* Option<T>: None is the empty sequence, Some(x) the one-element sequence.
None == <<>>
Some(x) == <<x>>
Unwrap(o) == o[1]

Ids == 1..MaxIds
Times == 0..MaxTime
\* The (project, description, tags) arguments the calls are made with: none
\* given, a project and tags, a description and other tags, a project and a
\* description, another project.
Inputs ==
    {[project |-> None, description |-> None, tags |-> <<>>],
     [project |-> Some("p1"), description |-> None, tags |-> <<"t1">>],
     [project |-> None, description |-> Some("d1"), tags |-> <<"t2", "t1">>],
     [project |-> Some("p1"), description |-> Some("d1"), tags |-> <<>>],
     [project |-> Some("p2"), description |-> None, tags |-> <<>>]}
OptTimes == {Some(t) : t \in Times} \cup {None}
OptIds == {Some(i) : i \in Ids} \cup {None}

VARIABLES
    variant,        \* "entries" (src/entries.rs) or "lib" (src/lib.rs)
    entries,        \* EntryList.entries: a function from a set of ids to Entry
    current_entry,  \* EntryList.current_entry: Some(id) or None
    now,            \* the last reading of the system clock
    used,           \* the ids in existence, which Uuid::new_v4 will not return
    panicked,       \* an .expect(...) failed and the process aborted
    op,             \* the last call made on the list
    ret,            \* what it returned: an Option<Entry> (None for a call returning ())
    listed,         \* what the last call returned when it was get_entries_in_order
    file,           \* what is stored at the path of the entries file
    result,         \* the Result of the last load, load_or_create or save
    pc,             \* where each invocation of the command line program is
    mem,            \* the EntryList each invocation holds in memory
    cmd             \* the command and arguments each invocation was given

vars == <<variant, entries, current_entry, now, used, panicked, op, ret, listed,
          file, result, pc, mem, cmd>>

\* The variables of the persistence calls.
storeVars == <<file, result>>

\* The variables of the invocations of the command line program.
cliVars == <<pc, mem, cmd>>

\* No invocation of the command line program exists.
NoInvocation ==
    /\ pc = <<>>
    /\ mem = <<>>
    /\ cmd = <<>>

\* What is stored at a path: nothing, a complete document, or bytes that are
\* no document ("partial": a document cut short, the empty file included;
\* "corrupt": any other bytes).
NoFile == [kind |-> "absent", doc |-> None]
PartialFile == [kind |-> "partial", doc |-> None]
CorruptFile == [kind |-> "corrupt", doc |-> None]
RonFile(doc) == [kind |-> "ron", doc |-> Some(doc)]

\* ----------------------------------------------------------------- Entry
\* Entry::new, given the id and the clock reading it draws.
EntryNew(id, project, description, tags, t) ==
    [id |-> id, project |-> project, description |-> description,
     tags |-> tags, start_time |-> t, end_time |-> None]

\* Variant of Entry::stop without the is_none guard: every stop stamps
\* end_time anew.
EntryStopAlways(e, t) ==
    [e EXCEPT !.end_time = Some(t)]

\* Entry::stop, given the clock reading it draws when the entry is open.
EntryStop(e, t) ==
    IF e.end_time = None THEN [e EXCEPT !.end_time = Some(t)] ELSE e

\* Uuid::new_v4: an id that is not in existence.  Ids are only ever compared
\* for equality, so which unused id is drawn makes no difference; the least
\* is taken.
NewId(u) ==
    CHOOSE id \in Ids \ u : \A other \in Ids \ u : id <= other

\* HashMap::insert
Insert(m, k, v) ==
    [x \in DOMAIN m \cup {k} |-> IF x = k THEN v ELSE m[x]]

\* Variant of HashMap::remove that leaves the key in the map (a lookup in
\* place of the removal).
RemoveForgotten(m, k) ==
    m

\* HashMap::remove
Remove(m, k) ==
    [x \in DOMAIN m \ {k} |-> m[x]]

\* ------------------------------------------------------------- EntryList
\* EntryList::new
Init ==
    /\ variant \in {"entries", "lib"}
    /\ entries = <<>>
    /\ current_entry = None
    /\ now = 0
    /\ used = {}
    /\ panicked = FALSE
    /\ op = "new"
    /\ ret = None
    /\ listed = None
    /\ file = NoFile
    /\ result = None
    /\ NoInvocation

\* A call `name` returns r, leaving the list as (es, cur), the clock at t and
\* the ids in existence u.
Return(name, es, cur, r, t, u) ==
    /\ op' = name
    /\ entries' = es
    /\ current_entry' = cur
    /\ ret' = r
    /\ now' = t
    /\ used' = u
    /\ listed' = None
    /\ UNCHANGED <<variant, panicked, storeVars, cliVars>>

\* .expect(NO_CURRENT_ENTRY_MESSAGE) on a missing entry: the call `name`
\* panics and the process aborts.
Panic(name) ==
    /\ op' = name
    /\ panicked' = TRUE
    /\ ret' = None
    /\ listed' = None
    /\ UNCHANGED <<variant, entries, current_entry, now, used, storeVars, cliVars>>

\* The clock reading of an Entry::stop on e: the clock is read only when e
\* is open.
StopReading(e, t) ==
    IF e.end_time = None THEN t ELSE now

\* ------------------------------------------------ src/entries.rs EntryList
\* Variant of start_entry (entries.rs) without the assignment to
\* current_entry.
StartEntryKeepsCurrent(project, description, tags) ==
    /\ variant = "entries"
    /\ ~panicked
    /\ used # Ids
    /\ \E t \in now..MaxTime :
         LET id == NewId(used)
             entry == EntryNew(id, project, description, tags, t)
         IN  Return("start", Insert(entries, id, entry), current_entry,
                    Some(entry), t, used \cup {id})

\* EntryList::start_entry (entries.rs)
StartEntry(project, description, tags) ==
    /\ variant = "entries"
    /\ ~panicked
    /\ used # Ids
    /\ \E t \in now..MaxTime :
         LET id == NewId(used)
             entry == EntryNew(id, project, description, tags, t)
             inserted == Insert(entries, id, entry)
         IN  Return("start", inserted, Some(id), Some(inserted[id]), t, used \cup {id})

\* Variant of the overrides that assigns all three arguments, given or not.
OverridesAlways(e, project, description, tags) ==
    [e EXCEPT !.project = project, !.description = description, !.tags = tags]

\* The overrides stop_current_entry applies to the entry it stopped.
Overrides(e, project, description, tags) ==
    LET e1 == IF project # None THEN [e EXCEPT !.project = project] ELSE e
        e2 == IF description # None THEN [e1 EXCEPT !.description = description] ELSE e1
    IN  IF Len(tags) > 0 THEN [e2 EXCEPT !.tags = tags] ELSE e2

\* Variant of stop_current_entry (entries.rs) that expects a current entry
\* and panics on an Idle list.
StopCurrentEntryExpects(project, description, tags) ==
    /\ variant = "entries"
    /\ ~panicked
    /\ IF current_entry = None \/ Unwrap(current_entry) \notin DOMAIN entries
       THEN Panic("stop")
       ELSE \E t \in now..MaxTime :
              LET id == Unwrap(current_entry)
                  entry == Overrides(EntryStop(entries[id], t), project, description, tags)
              IN  Return("stop", [entries EXCEPT ![id] = entry], None, Some(entry),
                         StopReading(entries[id], t), used)

\* EntryList::stop_current_entry (entries.rs)
StopCurrentEntry(project, description, tags) ==
    /\ variant = "entries"
    /\ ~panicked
    /\ IF current_entry # None
       THEN IF Unwrap(current_entry) \notin DOMAIN entries
            THEN Panic("stop")
            ELSE \E t \in now..MaxTime :
                   LET id == Unwrap(current_entry)
                       entry == Overrides(EntryStop(entries[id], t),
                                          project, description, tags)
                   IN  Return("stop", [entries EXCEPT ![id] = entry], None, Some(entry),
                              StopReading(entries[id], t), used)
       ELSE Return("stop", entries, current_entry, None, now, used)

\* Variant of clear_current_entry (entries.rs) without the assignment
\* current_entry = None.
ClearCurrentEntryKeepsCurrent ==
    /\ variant = "entries"
    /\ ~panicked
    /\ IF current_entry # None
       THEN IF Unwrap(current_entry) \notin DOMAIN entries
            THEN Panic("clear")
            ELSE Return("clear", Remove(entries, Unwrap(current_entry)), current_entry,
                        Some(entries[Unwrap(current_entry)]), now, used)
       ELSE Return("clear", entries, current_entry, None, now, used)

\* Variant of clear_current_entry (entries.rs) that expects a current entry
\* and panics on an Idle list.
ClearCurrentEntryExpects ==
    /\ variant = "entries"
    /\ ~panicked
    /\ IF current_entry = None \/ Unwrap(current_entry) \notin DOMAIN entries
       THEN Panic("clear")
       ELSE Return("clear", Remove(entries, Unwrap(current_entry)), None,
                   Some(entries[Unwrap(current_entry)]), now, used)

\* EntryList::clear_current_entry (entries.rs)
ClearCurrentEntry ==
    /\ variant = "entries"
    /\ ~panicked
    /\ IF current_entry # None
       THEN IF Unwrap(current_entry) \notin DOMAIN entries
            THEN Panic("clear")
            ELSE Return("clear", Remove(entries, Unwrap(current_entry)), None,
                        Some(entries[Unwrap(current_entry)]), now, used)
       ELSE Return("clear", entries, current_entry, None, now, used)

\* What EntryList::current_entry returns on the list (es, cur) when its
\* lookup succeeds.
CurrentEntryOf(es, cur) ==
    IF cur = None THEN None ELSE Some(es[Unwrap(cur)])

\* Variant of current_entry (entries.rs) that takes the current entry out of
\* the map (HashMap::remove in place of HashMap::get).
CurrentEntryTakes ==
    /\ variant = "entries"
    /\ ~panicked
    /\ IF current_entry # None /\ Unwrap(current_entry) \notin DOMAIN entries
       THEN Panic("current")
       ELSE Return("current",
                   IF current_entry = None THEN entries
                   ELSE Remove(entries, Unwrap(current_entry)),
                   current_entry, CurrentEntryOf(entries, current_entry), now, used)

\* Variant of current_entry (entries.rs) that looks the entry up without
\* .expect (and_then in place of map) and returns None when it is missing.
CurrentEntryLenient ==
    /\ variant = "entries"
    /\ ~panicked
    /\ Return("current", entries, current_entry,
              IF current_entry # None /\ Unwrap(current_entry) \in DOMAIN entries
              THEN CurrentEntryOf(entries, current_entry) ELSE None,
              now, used)

\* EntryList::current_entry (entries.rs)
CurrentEntry ==
    /\ variant = "entries"
    /\ ~panicked
    /\ IF current_entry # None /\ Unwrap(current_entry) \notin DOMAIN entries
       THEN Panic("current")
       ELSE Return("current", entries, current_entry,
                   CurrentEntryOf(entries, current_entry), now, used)

\* ---------------------------------------------------- src/lib.rs EntryList
\* EntryList::stop_current_entry (lib.rs)
LibStopCurrentEntry ==
    /\ variant = "lib"
    /\ ~panicked
    /\ IF current_entry # None
       THEN IF Unwrap(current_entry) \notin DOMAIN entries
            THEN Panic("stop")
            ELSE \E t \in now..MaxTime :
                   LET id == Unwrap(current_entry)
                       entry == EntryStop(entries[id], t)
                   IN  Return("stop", [entries EXCEPT ![id] = entry], None, Some(entry),
                              StopReading(entries[id], t), used)
       ELSE Return("stop", entries, current_entry, None, now, used)

\* EntryList::start_entry (lib.rs): stop the current entry, if any, then
\* create the new entry, select it and insert it.  It returns ().
LibStartEntry(project, description, tags) ==
    /\ variant = "lib"
    /\ ~panicked
    /\ used # Ids
    /\ IF current_entry # None /\ Unwrap(current_entry) \notin DOMAIN entries
       THEN Panic("start")
       ELSE \E t1 \in now..MaxTime :
              LET id == NewId(used)
                  stopped == IF current_entry # None
                             THEN [entries EXCEPT ![Unwrap(current_entry)] =
                                      EntryStop(entries[Unwrap(current_entry)], t1)]
                             ELSE entries
                  read == IF current_entry # None
                          THEN StopReading(entries[Unwrap(current_entry)], t1)
                          ELSE now
              IN  \E t2 \in read..MaxTime :
                    Return("start",
                           Insert(stopped, id, EntryNew(id, project, description, tags, t2)),
                           Some(id), None, t2, used \cup {id})

\* EntryList::clear_current_entry (lib.rs)
LibClearCurrentEntry ==
    /\ variant = "lib"
    /\ ~panicked
    /\ IF current_entry # None
       THEN IF Unwrap(current_entry) \notin DOMAIN entries
            THEN Panic("clear")
            ELSE Return("clear", Remove(entries, Unwrap(current_entry)), None,
                        Some(entries[Unwrap(current_entry)]), now, used)
       ELSE Return("clear", entries, current_entry, None, now, used)

\* -------------------------------------------------------- src/aggregate.rs
\* The sequences that hold every element of the set S once: the orders in
\* which HashMap::values can yield the entries under the keys S.
Orders(S) ==
    {o \in [1..Cardinality(S) -> S] : \A x \in S : \E i \in DOMAIN o : o[i] = x}

\* Vec::reverse
Reverse(s) ==
    [i \in 1..Len(s) |-> s[Len(s) + 1 - i]]

\* One step of the insertion sort: e is put into the sorted sequence s after
\* every element that is not greater, by Entry's Ord, than it.
InsertSorted(s, e) ==
    LET k == Cardinality({i \in DOMAIN s : s[i].start_time <= e.start_time})
    IN  SubSeq(s, 1, k) \o <<e>> \o SubSeq(s, k + 1, Len(s))

\* slice::sort_unstable on Vec<&Entry>: slices of at most 20 elements are
\* sorted by insertion, left to right, comparing start_time (Entry's Ord).
RECURSIVE SortUnstable(_)
SortUnstable(s) ==
    IF Len(s) = 0 THEN <<>>
    ELSE InsertSorted(SortUnstable(SubSeq(s, 1, Len(s) - 1)), s[Len(s)])

\* One step of an insertion sort into descending order.
InsertSortedDescending(s, e) ==
    LET k == Cardinality({i \in DOMAIN s : s[i].start_time >= e.start_time})
    IN  SubSeq(s, 1, k) \o <<e>> \o SubSeq(s, k + 1, Len(s))

RECURSIVE SortDescending(_)
SortDescending(s) ==
    IF Len(s) = 0 THEN <<>>
    ELSE InsertSortedDescending(SortDescending(SubSeq(s, 1, Len(s) - 1)), s[Len(s)])

\* Variant of get_entries_in_order that sorts with the comparison reversed
\* when it is not ascending, in place of reversing the sorted Vec.
EntriesInOrderByComparison(es, order, ascending) ==
    LET values == [i \in DOMAIN order |-> es[order[i]]]
    IN  IF ascending THEN SortUnstable(values) ELSE SortDescending(values)

\* What get_entries_in_order returns on the map es when HashMap::values
\* yields its entries in the order `order` of their keys.
EntriesInOrder(es, order, ascending) ==
    LET values == [i \in DOMAIN order |-> es[order[i]]]
        sorted == SortUnstable(values)
    IN  IF ~ascending THEN Reverse(sorted) ELSE sorted

\* EntryList::get_entries_in_order, with the order HashMap::values yields
\* the entries in (the same for every call made on an unmodified map).
GetEntriesInOrder(ascending, order) ==
    /\ ~panicked
    /\ op' = "entries_in_order"
    /\ ret' = None
    /\ listed' = Some([ascending |-> ascending,
                       result |-> EntriesInOrder(entries, order, ascending)])
    /\ UNCHANGED <<variant, entries, current_entry, now, used, panicked,
                   storeVars, cliVars>>

\* ------------------------------------------------------------------- Next
Next ==
    \/ \E a \in Inputs : StartEntry(a.project, a.description, a.tags)
    \/ \E a \in Inputs : StopCurrentEntry(a.project, a.description, a.tags)
    \/ ClearCurrentEntry
    \/ CurrentEntry
    \/ \E a \in Inputs : LibStartEntry(a.project, a.description, a.tags)
    \/ LibStopCurrentEntry
    \/ LibClearCurrentEntry

\* The calls made on a list that starts empty.
Spec == Init /\ [][Next]_vars

\* ------------------------------------------------------- rehydrated lists
\* The entries ron::de::from_bytes can produce under key id: EntryList and
\* Entry derive Deserialize, so every well-typed value is one, whatever its
\* times; the metadata is left at its defaults.
LoadableEntries(id) ==
    {[id |-> id, project |-> None, description |-> None, tags |-> <<>>,
      start_time |-> s, end_time |-> e] : s \in Times, e \in OptTimes}

\* The maps of at most MaxLoaded entries a stored list can hold.
LoadableMaps ==
    UNION {[S -> UNION {LoadableEntries(id) : id \in S}] :
             S \in {T \in SUBSET Ids : Cardinality(T) <= MaxLoaded}}

\* A list rehydrated from storage: any stored map whose entries sit under
\* their own ids, with any current_entry, also one naming a closed entry or
\* no entry at all.
LoadedInit ==
    /\ variant \in {"entries", "lib"}
    /\ entries \in {m \in LoadableMaps : \A id \in DOMAIN m : m[id].id = id}
    /\ current_entry \in OptIds
    /\ now \in Times
    /\ used = DOMAIN entries \cup {Unwrap(c) : c \in {current_entry} \ {None}}
    /\ panicked = FALSE
    /\ op = "load"
    /\ ret = None
    /\ listed = None
    /\ file = NoFile
    /\ result = None
    /\ NoInvocation

\* The calls given no project, no description and no tags, which leave the
\* metadata of a rehydrated list at its defaults, and the listing of the
\* entries in every iteration order of the map.
LoadedNext ==
    \/ StartEntry(None, None, <<>>)
    \/ StopCurrentEntry(None, None, <<>>)
    \/ ClearCurrentEntry
    \/ CurrentEntry
    \/ LibStartEntry(None, None, <<>>)
    \/ LibStopCurrentEntry
    \/ LibClearCurrentEntry
    \/ \E ascending \in BOOLEAN, order \in Orders(DOMAIN entries) :
          GetEntriesInOrder(ascending, order)

\* The calls made on a list that was rehydrated from storage.
LoadedSpec == LoadedInit /\ [][LoadedNext]_vars

\* ----------------------------------------------- src/entries.rs: storage
\* Readings of the clock per second: a SystemTime is a whole number of ticks
\* since the epoch.
TicksPerSecond == 2
NanosPerTick == 1000000000 \div TicksPerSecond

\* Variant of the SystemTime serializer that writes whole seconds only.
SerializeTimeWholeSeconds(t) ==
    [secs_since_epoch |-> t \div TicksPerSecond, nanos_since_epoch |-> 0]

\* serde's Serialize for SystemTime: the duration since UNIX_EPOCH as the
\* struct (secs_since_epoch, nanos_since_epoch).
SerializeTime(t) ==
    [secs_since_epoch |-> t \div TicksPerSecond,
     nanos_since_epoch |-> (t % TicksPerSecond) * NanosPerTick]

\* serde's Deserialize for SystemTime: UNIX_EPOCH + Duration::new(secs, nanos).
DeserializeTime(d) ==
    d.secs_since_epoch * TicksPerSecond + d.nanos_since_epoch \div NanosPerTick

\* #[derive(Serialize)] on Entry: the six fields in declaration order, an
\* Option written as None or Some(..).
SerializeEntry(e) ==
    <<e.id, e.project, e.description, e.tags, SerializeTime(e.start_time),
      IF e.end_time = None THEN None
      ELSE Some(SerializeTime(Unwrap(e.end_time)))>>

\* #[derive(Deserialize)] on Entry.
DeserializeEntry(d) ==
    [id |-> d[1], project |-> d[2], description |-> d[3], tags |-> d[4],
     start_time |-> DeserializeTime(d[5]),
     end_time |-> IF d[6] = None THEN None
                  ELSE Some(DeserializeTime(Unwrap(d[6])))]

\* #[derive(Serialize)] on EntryList: the map as its (key, value) pairs in
\* the order `order` in which the HashMap yields them, then current_entry.
SerializeList(es, cur, order) ==
    [entries |-> [i \in DOMAIN order |-> <<order[i], SerializeEntry(es[order[i]])>>],
     current_entry |-> cur]

\* Deserialize for HashMap: the pairs are inserted one after the other.
RECURSIVE DeserializeMap(_)
DeserializeMap(pairs) ==
    IF Len(pairs) = 0 THEN <<>>
    ELSE Insert(DeserializeMap(SubSeq(pairs, 1, Len(pairs) - 1)),
                pairs[Len(pairs)][1], DeserializeEntry(pairs[Len(pairs)][2]))

\* #[derive(Deserialize)] on EntryList.
DeserializeList(doc) ==
    [entries |-> DeserializeMap(doc.entries), current_entry |-> doc.current_entry]

\* Result<T, Error>: Ok with the list it carries (none for Ok(())), or one of
\* the kinds of Error.
Ok(list) == Some([kind |-> "Ok", list |-> list])
Err(kind) == Some([kind |-> kind, list |-> None])

\* A persistence call returned r, leaving the list es, cur in the caller's
\* hands and f at the path.
Stored(name, es, cur, f, r) ==
    /\ op' = name
    /\ entries' = es
    /\ current_entry' = cur
    /\ used' = used \cup DOMAIN es \cup {Unwrap(c) : c \in {cur} \ {None}}
    /\ file' = f
    /\ result' = r
    /\ ret' = None
    /\ listed' = None
    /\ UNCHANGED <<variant, now, panicked, cliVars>>

\* Variant of from_bytes whose failure is wrapped as an I/O error.
FromBytesAsIoError(f) ==
    IF f.kind = "ron" THEN Ok(Some(DeserializeList(Unwrap(f.doc))))
    ELSE Err("File")

\* ron::de::from_bytes(&bytes).map_err(Error::from): the list of a complete
\* document, a SpannedError for any other bytes.
FromBytes(f) ==
    IF f.kind = "ron" THEN Ok(Some(DeserializeList(Unwrap(f.doc))))
    ELSE Err("SerializeSpanned")

\* fs::read(path): the bytes of the file, ErrorKind::NotFound when there is
\* none, or an io::Error of another kind when the read fails.
Read(f, io_fails) ==
    IF io_fails THEN "Other" ELSE IF f = NoFile THEN "NotFound" ELSE "Bytes"

\* The caller's list after a call returned r: the list r carries, if any.
Loaded(r) ==
    IF Unwrap(r).list = None
    THEN [entries |-> entries, current_entry |-> current_entry]
    ELSE Unwrap(Unwrap(r).list)

\* EntryList::load
Load(io_fails) ==
    /\ ~panicked
    /\ LET r == IF Read(file, io_fails) = "Bytes" THEN FromBytes(file)
                ELSE Err("File")
       IN  Stored("load", Loaded(r).entries, Loaded(r).current_entry, file, r)

\* EntryList::load_or_create
LoadOrCreate(io_fails) ==
    /\ ~panicked
    /\ LET r == CASE Read(file, io_fails) = "Bytes" -> FromBytes(file)
                  [] Read(file, io_fails) = "NotFound" ->
                        Ok(Some([entries |-> <<>>, current_entry |-> None]))
                  [] OTHER -> Err("File")
       IN  Stored("load_or_create", Loaded(r).entries, Loaded(r).current_entry,
                  file, r)

\* EntryList::save.  File::create fails and leaves the path as it was, or it
\* creates or truncates the file; to_writer then writes the document through
\* to the file piece by piece, and fails part-way with a ron::error::Error
\* or completes.
Save(outcome, order) ==
    /\ ~panicked
    /\ CASE outcome = "create_fails" ->
              Stored("save", entries, current_entry, file, Err("File"))
         [] outcome = "write_fails" ->
              Stored("save", entries, current_entry, PartialFile,
                     Err("Serialize"))
         [] OTHER ->
              Stored("save", entries, current_entry,
                     RonFile(SerializeList(entries, current_entry, order)),
                     Ok(None))

\* The metadata of the stored entries: every field absent, a project and a
\* tag, a description and two tags.
StoredInputs == {a \in Inputs : a.project = None \/ a.tags # <<>>}

\* The entries a list can hold under key id: started at some reading of the
\* clock and, if closed, stopped at no earlier one.
StorableEntries(id) ==
    {[id |-> id, project |-> a.project, description |-> a.description,
      tags |-> a.tags, start_time |-> s, end_time |-> e] :
        a \in StoredInputs, s \in Times, e \in OptTimes}
    \ {x \in [id : {id}, project : {a.project : a \in Inputs},
              description : {a.description : a \in Inputs},
              tags : {a.tags : a \in Inputs}, start_time : Times,
              end_time : OptTimes \ {None}] :
         Unwrap(x.end_time) < x.start_time}

\* The maps of at most MaxLoaded such entries.
StorableMaps ==
    UNION {[S -> UNION {StorableEntries(id) : id \in S}] :
             S \in {T \in SUBSET Ids : Cardinality(T) <= MaxLoaded}}

\* A list in the caller's hands, Idle or Running on one of its entries, and
\* a path that holds no file or bytes that are no document.
StoreInit ==
    /\ variant = "entries"
    /\ entries \in {m \in StorableMaps : \A id \in DOMAIN m : m[id].id = id}
    /\ current_entry \in {None} \cup {Some(id) : id \in DOMAIN entries}
    /\ now = MaxTime
    /\ used = DOMAIN entries
    /\ panicked = FALSE
    /\ op = "new"
    /\ ret = None
    /\ listed = None
    /\ file \in {NoFile, CorruptFile}
    /\ result = None
    /\ NoInvocation

StoreNext ==
    \/ \E io_fails \in BOOLEAN : Load(io_fails)
    \/ \E io_fails \in BOOLEAN : LoadOrCreate(io_fails)
    \/ \E outcome \in {"ok", "create_fails", "write_fails"},
          order \in Orders(DOMAIN entries) : Save(outcome, order)

\* The persistence calls made with a list and a path.
StoreSpec == StoreInit /\ [][StoreNext]_vars

\* ------------------------------------------------------------ src/main.rs
\* The invocations of the command line program: two, so that they can run
\* at the same time.
Procs == {"a", "b"}

\* EntryList::new()
EmptyList == [entries |-> <<>>, current_entry |-> None]

\* The command lines: start and stop with an EntryInfo, and clear, status
\* and log.
Commands ==
    {[name |-> n, project |-> a.project, description |-> a.description,
      tags |-> a.tags] : n \in {"start", "stop"}, a \in StoredInputs}
    \cup {[name |-> n, project |-> None, description |-> None, tags |-> <<>>] :
            n \in {"clear", "status", "log"}}

\* A call on the list in memory returned, leaving the list l, the clock at t
\* and the ids in existence u; or it panicked.
Returned(l, t, u) == [list |-> l, now |-> t, used |-> u, panics |-> FALSE]
Panicked == [list |-> EmptyList, now |-> now, used |-> used, panics |-> TRUE]

\* The lookup of the current entry of l fails.
Missing(l) ==
    l.current_entry # None /\ Unwrap(l.current_entry) \notin DOMAIN l.entries

\* entries.stop_current_entry() on the list l in memory, as main calls it:
\* without project, description and tags.
Stopped(l) ==
    IF l.current_entry = None THEN {Returned(l, now, used)}
    ELSE IF Missing(l) THEN {Panicked}
    ELSE LET id == Unwrap(l.current_entry)
         IN  {Returned([entries |-> [l.entries EXCEPT ![id] =
                                        Overrides(EntryStop(l.entries[id], t),
                                                  None, None, <<>>)],
                        current_entry |-> None],
                       StopReading(l.entries[id], t), used) : t \in now..MaxTime}

\* entries.start_entry(project, description, tags) on the list l in memory:
\* start_entry of entries.rs, or start_entry of lib.rs, which stops first.
Started(l, project, description, tags) ==
    LET id == NewId(used)
        started(m, t) ==
            [entries |-> Insert(m, id, EntryNew(id, project, description, tags, t)),
             current_entry |-> Some(id)]
    IN  IF variant = "entries"
        THEN {Returned(started(l.entries, t), t, used \cup {id}) : t \in now..MaxTime}
        ELSE UNION {IF o.panics THEN {o}
                    ELSE {Returned(started(o.list.entries, t), t, used \cup {id}) :
                            t \in o.now..MaxTime} : o \in Stopped(l)}

\* entries.clear_current_entry() on the list l in memory.
Cleared(l) ==
    IF l.current_entry = None THEN {Returned(l, now, used)}
    ELSE IF Missing(l) THEN {Panicked}
    ELSE {Returned([entries |-> Remove(l.entries, Unwrap(l.current_entry)),
                    current_entry |-> None], now, used)}

\* entries.current_entry() on the list l in memory.
Shown(l) ==
    IF Missing(l) THEN {Panicked} ELSE {Returned(l, now, used)}

\* The invocation p moves on to the place `to`, with the list l in memory,
\* the file f at the path, the clock at t and the ids in existence u.
Step(p, to, l, f, t, u) ==
    /\ pc' = [pc EXCEPT ![p] = to]
    /\ mem' = [mem EXCEPT ![p] = l]
    /\ file' = f
    /\ now' = t
    /\ used' = u
    /\ UNCHANGED <<variant, entries, current_entry, panicked, op, ret, listed,
                   result, cmd>>

\* main, "Load entries": the list of the document read, a panic on bytes
\* that are no document, and the empty list on any failure of the read.
CliLoad(p, io_fails) ==
    /\ pc[p] = "start"
    /\ IF Read(file, io_fails) = "Bytes"
       THEN IF Unwrap(FromBytes(file)).kind = "Ok"
            THEN Step(p, "loaded", Unwrap(Unwrap(FromBytes(file)).list),
                      file, now, used)
            ELSE Step(p, "panicked", mem[p], file, now, used)
       ELSE Step(p, "loaded", EmptyList, file, now, used)

\* The invocation p ran its command, with one of the outcomes `outcomes`.
Ran(p, outcomes) ==
    \E o \in outcomes :
       IF o.panics THEN Step(p, "panicked", mem[p], file, now, used)
       ELSE Step(p, "ran", o.list, file, o.now, o.used)

\* main, Commands::Start(info)
CliStart(p) ==
    /\ pc[p] = "loaded"
    /\ cmd[p].name = "start"
    /\ used # Ids
    /\ Ran(p, Started(mem[p], cmd[p].project, cmd[p].description, cmd[p].tags))

\* main, Commands::Stop(info): info is not used.
CliStop(p) ==
    /\ pc[p] = "loaded"
    /\ cmd[p].name = "stop"
    /\ Ran(p, Stopped(mem[p]))

\* main, Commands::Clear
CliClear(p) ==
    /\ pc[p] = "loaded"
    /\ cmd[p].name = "clear"
    /\ Ran(p, Cleared(mem[p]))

\* main, Commands::Status
CliStatus(p) ==
    /\ pc[p] = "loaded"
    /\ cmd[p].name = "status"
    /\ Ran(p, Shown(mem[p]))

\* main, Commands::Log => todo!()
CliLog(p) ==
    /\ pc[p] = "loaded"
    /\ cmd[p].name = "log"
    /\ Ran(p, {Panicked})

\* main, "Save updated entries", File::create(..).expect(..): a panic that
\* leaves the path as it was, or the file created or truncated.
CliCreate(p, fails) ==
    /\ pc[p] = "ran"
    /\ IF fails THEN Step(p, "panicked", mem[p], file, now, used)
       ELSE Step(p, "created", mem[p], PartialFile, now, used)

\* What the file can hold after the invocation p wrote the document doc into
\* it from its start, or failed to: the document, or nothing more than was
\* there, when the file held nothing since p created it; when another
\* invocation wrote into the file after that, also a mix of the two writes.
Written(doc, fails) ==
    IF file.kind = "partial"
    THEN IF fails THEN {PartialFile} ELSE {RonFile(doc)}
    ELSE IF fails THEN {file, CorruptFile} ELSE {RonFile(doc), CorruptFile}

\* Variant of the write that first reads the entries now in the file and
\* keeps them next to the ones in memory.
CliWriteMerging(p, fails, order) ==
    /\ pc[p] = "created"
    /\ LET stored == IF file.kind = "ron"
                     THEN DeserializeList(Unwrap(file.doc)).entries ELSE <<>>
           merged == [id \in DOMAIN stored \cup DOMAIN mem[p].entries |->
                        IF id \in DOMAIN mem[p].entries THEN mem[p].entries[id]
                        ELSE stored[id]]
       IN  /\ order \in Orders(DOMAIN merged)
           /\ \E f \in Written(SerializeList(merged, mem[p].current_entry, order),
                               fails) :
                 Step(p, IF fails THEN "panicked" ELSE "exited", mem[p], f, now, used)

\* main, ron::ser::to_writer(out_file, &entries).expect(..), after which
\* main returns.
CliWrite(p, fails, order) ==
    /\ pc[p] = "created"
    /\ order \in Orders(DOMAIN mem[p].entries)
    /\ \E f \in Written(SerializeList(mem[p].entries, mem[p].current_entry, order),
                        fails) :
          Step(p, IF fails THEN "panicked" ELSE "exited", mem[p], f, now, used)

\* The orders in which a HashMap can yield the entries it holds.
Iterations == UNION {Orders(S) : S \in SUBSET Ids}

\* Two invocations are started with any two command lines, on a path that
\* holds no file.
CliInit ==
    /\ variant \in {"entries", "lib"}
    /\ entries = <<>>
    /\ current_entry = None
    /\ now = 0
    /\ used = {}
    /\ panicked = FALSE
    /\ op = "new"
    /\ ret = None
    /\ listed = None
    /\ file = NoFile
    /\ result = None
    /\ pc = [p \in Procs |-> "start"]
    /\ mem = [p \in Procs |-> EmptyList]
    /\ cmd \in [Procs -> Commands]

CliNext ==
    \E p \in Procs :
       \/ \E io_fails \in BOOLEAN : CliLoad(p, io_fails)
       \/ CliStart(p)
       \/ CliStop(p)
       \/ CliClear(p)
       \/ CliStatus(p)
       \/ CliLog(p)
       \/ \E fails \in BOOLEAN : CliCreate(p, fails)
       \/ \E fails \in BOOLEAN, order \in Iterations : CliWrite(p, fails, order)

\* The invocations of the command line program, which share the entries
\* file, the clock and the ids.
CliSpec == CliInit /\ [][CliNext]_vars

\* ================================================================= claims
\* The entries of the list that are open.
Open == {id \in DOMAIN entries : entries[id].end_time = None}

\* C1: after any sequence of start, stop and clear calls on a list that
\* started empty, at most one Entry in `entries` has an absent end_time.
C1_AtMostOneOpen ==
    Cardinality(Open) <= 1

\* C2: in every state reachable from the empty list, if current_entry is
\* set then its id is a key of `entries` and the Entry it names is open, and
\* no call has taken the "current entry missing" fatal path.
C2_CurrentIsOpenKey ==
    /\ ~panicked
    /\ current_entry # None =>
         /\ Unwrap(current_entry) \in DOMAIN entries
         /\ entries[Unwrap(current_entry)].end_time = None

\* C2 witness: current() was called on a Running list and returned the open
\* entry current_entry names.
C2_Witness ==
    /\ op = "current"
    /\ current_entry # None
    /\ ret = Some(entries[Unwrap(current_entry)])
    /\ Unwrap(ret).end_time = None

\* C3: a start made while the list is Running closes the previously current
\* Entry: after the call it is still a key of `entries`, its end_time is set
\* and is at most the start_time of the Entry the call created.
C3_StartClosesPrevious ==
    [][(op' = "start" /\ ~panicked' /\ current_entry # None) =>
         LET prev == Unwrap(current_entry)
             new == Unwrap(current_entry')
         IN  /\ prev \in DOMAIN entries'
             /\ entries'[prev].end_time # None
             /\ Unwrap(entries'[prev].end_time) <= entries'[new].start_time]_vars

\* C4: in every reachable state an Entry is open only if it is the one
\* current_entry names, so an Idle list holds no open Entry.
C4_OpenOnlyIfCurrent ==
    \A id \in Open : current_entry = Some(id)

\* C5: stop on a Running list sets the end_time of the current Entry, clears
\* current_entry and returns that Entry; its project is the project argument
\* if one is given and the old project otherwise, likewise its description,
\* and its tags are the tags argument if that is non-empty and the old tags
\* otherwise.  (The stop of lib.rs takes no arguments and leaves all three.)
C5_StopRunning ==
    [][/\ (op' = "stop" /\ current_entry # None) =>
            LET id == Unwrap(current_entry) IN
            /\ ~panicked'
            /\ id \in DOMAIN entries'
            /\ DOMAIN entries' = DOMAIN entries
            /\ entries'[id].end_time # None
            /\ current_entry' = None
            /\ ret' = Some(entries'[id])
       /\ (op' = "stop" /\ current_entry # None /\ variant = "entries") =>
            \A a \in Inputs :
               StopCurrentEntry(a.project, a.description, a.tags) =>
                  LET old == entries[Unwrap(current_entry)]
                      new == entries'[Unwrap(current_entry)]
                  IN  /\ new.project =
                            IF a.project # None THEN a.project ELSE old.project
                      /\ new.description =
                            IF a.description # None THEN a.description ELSE old.description
                      /\ new.tags = IF a.tags # <<>> THEN a.tags ELSE old.tags
       /\ (op' = "stop" /\ current_entry # None /\ variant = "lib") =>
            LET old == entries[Unwrap(current_entry)]
                new == entries'[Unwrap(current_entry)]
            IN  /\ new.project = old.project
                /\ new.description = old.description
                /\ new.tags = old.tags]_vars

\* C5 witness: a stop returned the Entry it closed, which is in `entries`
\* with its end_time set, and the list is Idle.
C5_Witness ==
    /\ op = "stop"
    /\ ret # None
    /\ current_entry = None
    /\ Unwrap(ret).end_time # None
    /\ entries[Unwrap(ret).id] = Unwrap(ret)

\* C6: stop on an Idle list returns an absent result and leaves `entries`
\* and current_entry as they were.
C6_StopIdleNoOp ==
    [][(op' = "stop" /\ current_entry = None) =>
         /\ ~panicked'
         /\ ret' = None
         /\ entries' = entries
         /\ current_entry' = current_entry]_vars

\* C6 witness: a stop returned nothing on an Idle list that holds entries.
C6_Witness ==
    /\ op = "stop"
    /\ ~panicked
    /\ ret = None
    /\ current_entry = None
    /\ DOMAIN entries # {}

\* C7: clear on an Idle list returns an absent result and leaves `entries`
\* and current_entry as they were.
C7_ClearIdleNoOp ==
    [][(op' = "clear" /\ current_entry = None) =>
         /\ ~panicked'
         /\ ret' = None
         /\ entries' = entries
         /\ current_entry' = current_entry]_vars

\* C7 witness: a clear returned nothing on an Idle list that holds entries.
C7_Witness ==
    /\ op = "clear"
    /\ ~panicked
    /\ ret = None
    /\ current_entry = None
    /\ DOMAIN entries # {}

\* C8: clear on a Running list removes the current Entry from `entries`,
\* sets current_entry to none, returns the removed Entry and leaves every
\* other Entry as it was.
C8_ClearRunning ==
    [][(op' = "clear" /\ current_entry # None) =>
         LET id == Unwrap(current_entry) IN
         /\ ~panicked'
         /\ id \notin DOMAIN entries'
         /\ DOMAIN entries' = DOMAIN entries \ {id}
         /\ current_entry' = None
         /\ ret' = Some(entries[id])
         /\ \A k \in DOMAIN entries' : entries'[k] = entries[k]]_vars

\* C8 witness: a clear returned an Entry that is no longer a key of
\* `entries`, while another Entry is still there.
C8_Witness ==
    /\ op = "clear"
    /\ ret # None
    /\ current_entry = None
    /\ Unwrap(ret).id \notin DOMAIN entries
    /\ DOMAIN entries # {}

\* C9: right after start(project, description, tags) of entries.rs on any
\* list, current() returns the Entry start created and returned: it is a key
\* of `entries`, carries the given project, description and tags, and is
\* open.
C9_StartThenCurrent ==
    [][(op' = "start" /\ variant = "entries") =>
         \A a \in Inputs :
          StartEntry(a.project, a.description, a.tags) =>
            /\ ~panicked'
            /\ ret' # None
            /\ current_entry' = Some(Unwrap(ret').id)
            /\ Unwrap(current_entry') \in DOMAIN entries'
            /\ CurrentEntryOf(entries', current_entry') = ret'
            /\ Unwrap(ret').id \notin DOMAIN entries
            /\ Unwrap(ret').project = a.project
            /\ Unwrap(ret').description = a.description
            /\ Unwrap(ret').tags = a.tags
            /\ Unwrap(ret').end_time = None]_vars

\* C9 witness: a start was made on a list that already held an entry, and
\* what current() returns is the Entry the start returned.
C9_Witness ==
    /\ op = "start"
    /\ ret # None
    /\ Cardinality(DOMAIN entries) >= 2
    /\ CurrentEntryOf(entries, current_entry) = ret

\* C10: once an Entry's end_time is set, no start, stop or clear changes or
\* clears it while the Entry remains in `entries`, also when the stop is
\* applied to an Entry that is already closed (which takes a rehydrated list
\* whose current_entry names a closed Entry).
C10_EndTimeSetOnce ==
    [][\A id \in DOMAIN entries \cap DOMAIN entries' :
         entries[id].end_time # None =>
            entries'[id].end_time = entries[id].end_time]_vars

\* C10 witness: a stop returned an Entry whose end_time is earlier than the
\* clock reading the list has seen, so the Entry was closed before the stop.
C10_Witness ==
    /\ op = "stop"
    /\ ret # None
    /\ Unwrap(ret).end_time # None
    /\ Unwrap(Unwrap(ret).end_time) < now
    /\ entries[Unwrap(ret).id] = Unwrap(ret)

\* C11: get_entries_in_order(true) returns every Entry of `entries` once,
\* open or closed, in non-decreasing start_time order, and
\* get_entries_in_order(false) returns the reverse of the sequence the
\* ascending call returns on the same map, also when start_times are shared.
C11_EntriesInOrder ==
    [][op' = "entries_in_order" =>
         LET r == Unwrap(listed').result
             asc == Unwrap(listed').ascending
         IN  /\ Len(r) = Cardinality(DOMAIN entries)
             /\ \A id \in DOMAIN entries : \E i \in DOMAIN r : r[i] = entries[id]
             /\ asc => \A i, j \in DOMAIN r :
                          i < j => r[i].start_time <= r[j].start_time
             /\ ~asc => \A order \in Orders(DOMAIN entries) :
                   r = EntriesInOrder(entries, order, FALSE) =>
                      r = Reverse(EntriesInOrder(entries, order, TRUE))]_vars

\* C11 witness: a descending listing of two entries that share a start_time,
\* one of them open.
C11_Witness ==
    /\ op = "entries_in_order"
    /\ listed # None
    /\ ~Unwrap(listed).ascending
    /\ Len(Unwrap(listed).result) >= 2
    /\ Unwrap(listed).result[1].start_time = Unwrap(listed).result[2].start_time
    /\ Unwrap(listed).result[1].end_time # Unwrap(listed).result[2].end_time

\* C12: a save that succeeded, followed by a load of the same path, fails
\* only with an I/O error, and the list a successful load yields has the
\* entries of the saved list under the same ids, with the same six field
\* values each, and the same current_entry.
C12_SaveLoadRoundTrip ==
    [][(op = "save" /\ result = Ok(None) /\ op' = "load") =>
          /\ Unwrap(result').kind \in {"Ok", "File"}
          /\ Load(FALSE) => Unwrap(result').kind = "Ok"
          /\ Unwrap(result').kind = "Ok" =>
                /\ Unwrap(Unwrap(result').list) =
                      [entries |-> entries, current_entry |-> current_entry]
                /\ entries' = entries
                /\ current_entry' = current_entry]_vars

\* C12 witness: a load yielded a Running list whose current Entry has no
\* project, a description and tags, and another time than a whole number of
\* seconds.
C12_Witness ==
    /\ op = "load"
    /\ Unwrap(result).kind = "Ok"
    /\ file.kind = "ron"
    /\ current_entry # None
    /\ Unwrap(current_entry) \in DOMAIN entries
    /\ LET e == entries[Unwrap(current_entry)]
       IN  /\ e.project = None
           /\ e.description # None
           /\ Len(e.tags) = 2
           /\ e.end_time = None
           /\ e.start_time % TicksPerSecond # 0

\* C13: an invocation goes on from loading, while a document is stored at
\* the path, only with the list of that document: it goes on with the empty
\* list only when no file is found.
C13_EmptyOnlyWhenNotFound ==
    [][\A p \in Procs :
          (pc[p] = "start" /\ pc'[p] = "loaded" /\ file.kind = "ron") =>
             mem'[p] = DeserializeList(Unwrap(file.doc))]_vars

\* C14: a save that fails leaves at the path what was there before the call.
C14_FailedSaveLeavesFile ==
    [][(op' = "save" /\ Unwrap(result').kind # "Ok") => file' = file]_vars

\* C15: a load that reads bytes that are no document fails with
\* SerializeSpanned, a load whose read fails, or that finds no file, fails
\* with File, and a load that fails yields no list and leaves the caller's
\* list as it was.
C15_LoadErrorKinds ==
    [][op' = "load" =>
          /\ (Load(FALSE) /\ file.kind \in {"corrupt", "partial"}) =>
                Unwrap(result').kind = "SerializeSpanned"
          /\ (Load(TRUE) \/ file = NoFile) => Unwrap(result').kind = "File"
          /\ Unwrap(result').kind # "Ok" =>
                /\ Unwrap(result').list = None
                /\ entries' = entries
                /\ current_entry' = current_entry]_vars

\* C15 witness: a load of a document cut short by a failed save returned
\* SerializeSpanned.
C15_Witness ==
    /\ op = "load"
    /\ file = PartialFile
    /\ result = Err("SerializeSpanned")
    /\ DOMAIN entries # {}

\* C16: when the stop command has run on a Running list, the entry it
\* stopped, which the invocation then saves, has the project given on the
\* command line, if one was given, and likewise the description and the
\* tags, if any were given.
C16_StopAppliesInfo ==
    [][\A p \in Procs :
          (/\ pc[p] = "loaded"
           /\ pc'[p] = "ran"
           /\ cmd[p].name = "stop"
           /\ mem[p].current_entry # None) =>
             LET e == mem'[p].entries[Unwrap(mem[p].current_entry)]
             IN  /\ cmd[p].project # None => e.project = cmd[p].project
                 /\ cmd[p].description # None => e.description = cmd[p].description
                 /\ Len(cmd[p].tags) > 0 => e.tags = cmd[p].tags]_vars

\* C17: an invocation of the log command that has loaded the stored list
\* does not panic.
C17_LogCompletes ==
    [][\A p \in Procs :
          (pc[p] = "loaded" /\ cmd[p].name = "log") => pc'[p] # "panicked"]_vars

\* C18: the invocations hold no lock and write the list they hold in memory
\* over the file, so that once both have exited a document at the path is
\* the list of one invocation alone, whatever the other one had saved.
C18_LastWriterWins ==
    ((\A p \in Procs : pc[p] = "exited") /\ file.kind = "ron") =>
       \E p \in Procs : DeserializeList(Unwrap(file.doc)) = mem[p]

\* C18 witness: two start commands both loaded, started an entry, saved and
\* exited, and the entry that one of them started is not in the document at
\* the path.
C18_Witness ==
    /\ \A p \in Procs : pc[p] = "exited" /\ cmd[p].name = "start"
    /\ file.kind = "ron"
    /\ \E p \in Procs :
          ~(DOMAIN mem[p].entries \subseteq
               DOMAIN DeserializeList(Unwrap(file.doc)).entries)

\* C19: the key set of `entries` grows only through a start that returns,
\* by exactly the one new id, and shrinks only through clear, by exactly the
\* current id;
\* stop, current and get_entries_in_order neither add nor remove a key, and
\* current and get_entries_in_order leave the whole list as it was.
C19_KeysChangeOnlyByStartAndClear ==
    [][/\ DOMAIN entries' # DOMAIN entries => op' \in {"start", "clear"}
       /\ (op' = "start" /\ ~panicked') =>
            /\ DOMAIN entries \subseteq DOMAIN entries'
            /\ Cardinality(DOMAIN entries' \ DOMAIN entries) = 1
            /\ current_entry' # None
            /\ DOMAIN entries' \ DOMAIN entries = {Unwrap(current_entry')}
       /\ op' = "clear" =>
            DOMAIN entries' =
               DOMAIN entries \ {Unwrap(c) : c \in {current_entry} \ {None}}
       /\ op' \in {"stop", "current", "entries_in_order"} =>
            DOMAIN entries' = DOMAIN entries
       /\ op' \in {"current", "entries_in_order"} =>
            /\ entries' = entries
            /\ current_entry' = current_entry]_vars

\* C19 witness: current() returned the open Entry of a list of two entries,
\* which are both still there.
C19_Witness ==
    /\ op = "current"
    /\ ret # None
    /\ Cardinality(DOMAIN entries) = 2
    /\ Unwrap(ret).id \in DOMAIN entries

\* C20: on a list whose current_entry names an id that is not a key of
\* `entries`, each of stop, clear and current fails fatally: the call panics,
\* returns nothing and leaves the list as it was, in place of returning an
\* absent result as it does on an Idle list.
C20_MissingCurrentIsFatal ==
    [][(/\ op' \in {"stop", "clear", "current"}
        /\ current_entry # None
        /\ Unwrap(current_entry) \notin DOMAIN entries) =>
          /\ panicked'
          /\ entries' = entries
          /\ current_entry' = current_entry]_vars

\* C20 witness: a call panicked on a rehydrated list whose current_entry
\* names no entry, while the list holds another entry.
C20_Witness ==
    /\ panicked
    /\ op \in {"stop", "clear", "current"}
    /\ current_entry # None
    /\ Unwrap(current_entry) \notin DOMAIN entries
    /\ DOMAIN entries # {}

====
